---- MODULE Spec2Model ----
(***************************************************************************)
(* Hybrid pipeline of src/index.js: asset discovery, job expansion, the    *)
(* parallel upload/expand stage, the sequential mask stage, the parallel   *)
(* fill/overlay stage, result aggregation and the report write.            *)
(*                                                                         *)
(* Every collaborator call (Firefly, Photoshop, S3, Sharp) is an in-flight *)
(* unit that settles with success or failure, chosen nondeterministically. *)
(* Units of a parallel stage settle in any order.                          *)
(***************************************************************************)
EXTENDS Integers, Sequences, FiniteSets, TLC

(***************************************************************************)
(* Bounds of the model.                                                    *)
(***************************************************************************)
\* largest number of image files found under the assets folder
MaxLocalAssets == 1
\* largest number of jobs one run expands
MaxJobs == 3
\* granularity of the clock, in milliseconds
TickMs == 100
\* largest number of calls of the logger in one run of the logger
MaxLogCalls == 3

\* the log cleanup utility: the last day of the calendar, counted from
\* 2025-08-27 as day 0, and the number of files in the directory
MaxDay == 4

MaxDirFiles == 2

(***************************************************************************)
(* Program constants.                                                      *)
(***************************************************************************)
\* setTimeout(resolve, 200) in sequentialMaskCreation
MaskDelayMs == 200
\* defaults of the logger
DefaultLogLevel == "info"

DefaultMaxFileSize == 10485760

DefaultMaxFiles == 5

\* the log cleanup utility: milliseconds of a day, days kept by --auto
MsPerDay == 86400000

KeepDays == 2

(***************************************************************************)
(* The settings the script requires of process.env.                        *)
(***************************************************************************)
AdobeSettings == {"ADOBE_CLIENT_ID", "ADOBE_CLIENT_SECRET", "ADOBE_SCOPES"}

\* the S3 check when the key prefix is left out of it
S3SettingsWithoutPrefix ==
  {"AWS_REGION", "S3_BUCKET_NAME", "AWS_ACCESS_KEY_ID", "AWS_SECRET_ACCESS_KEY"}

S3Settings ==
  {"AWS_REGION", "S3_BUCKET_NAME", "AWS_ACCESS_KEY_ID", "AWS_SECRET_ACCESS_KEY",
   "S3_KEY_PREFIX"}

RequiredSettings == AdobeSettings \cup S3Settings

(***************************************************************************)
(* The campaign brief (campaign.yaml) read by main().                      *)
(***************************************************************************)
\* brief.aspect_ratios
AspectRatios == <<"1:1", "16:9">>

\* Object.keys(brief.product_categories), in key order
CategoryOrder == <<"fragrances", "shoes">>

\* the categories that have a configuration entry
ProductCategories == {CategoryOrder[k] : k \in DOMAIN CategoryOrder}

\* brief.product_categories[c].target_regions (region codes); <<>> when
\* the category has no configuration entry
TargetRegions(c) ==
  IF c = "fragrances" THEN <<"US", "DE">>
  ELSE IF c = "shoes" THEN <<"US">>
  ELSE <<>>

\* directory names that may occur under the assets folder
FolderCategories == ProductCategories \cup {"misc"}

\* what fs finds for a scanned file when the stage loads it
FileStates == {"ok", "missing", "empty"}

\* ratio.replace(':', 'x')
RatioFormatted(ratio) ==
  IF ratio = "1:1" THEN "1x1"
  ELSE IF ratio = "16:9" THEN "16x9"
  ELSE IF ratio = "9:16" THEN "9x16"
  ELSE ratio

\* names of the scanned files, in scan order
LocalFileName(n) == IF n = 1 THEN "p1.png" ELSE IF n = 2 THEN "p2.png" ELSE "p3.png"

\* the absent URL (null)
NoUrl == <<"null", 0>>

(***************************************************************************)
(* Helpers on sequences.                                                   *)
(***************************************************************************)
RECURSIVE Flatten(_)
Flatten(ss) == IF ss = <<>> THEN <<>> ELSE Head(ss) \o Flatten(Tail(ss))

Range(s) == {s[k] : k \in DOMAIN s}

Min(a, b) == IF a < b THEN a ELSE b

Max(a, b) == IF a > b THEN a ELSE b

VARIABLES
  pc,              \* position of the script and of main()
  env,             \* the settings present in process.env
  assetsFolder,    \* the image files under brief.assets_folder
  generationTasks, \* the settled tasks of generateMissingAssetsParallel
  assetReferences, \* result of getAssetReferences
  loadFailed,      \* asset references whose load threw in phase 1
  tasks1,          \* uploadExpandTasks: one unit per job
  preparedAssets,  \* output of phase 1
  maskIdx,         \* loop variable i of sequentialMaskCreation
  maskSt,          \* the loop is "idle" (running), "awaiting" createMask or in "delay"
  maskInFlight,    \* job ids whose createMask call is in flight
  maskResult,      \* per job, how its createMask call settled ("none": not yet)
  maskSteps,       \* per job, the calls its createMask call in flight has made
  maskedAssets,    \* output of phase 2
  timer,           \* milliseconds left of the running setTimeout
  sinceSettle,     \* milliseconds since the last createMask settled (-1: none yet)
  gaps,            \* for each createMask call after the first, the time since the previous one settled
  maskCalls,       \* job ids in the order their createMask call started
  calls,           \* per job, the collaborator operations called for it
  tasks3,          \* finalTasks: one unit per masked asset
  processResults,  \* the report object
  reportsWritten,  \* number of fs.writeFileSync(resultsFile, ...) calls
  logEnv,          \* LOG_LEVEL, LOG_MAX_SIZE and LOG_MAX_FILES of process.env
  logLevel,        \* this.logLevel of the logger
  maxFileSize,     \* this.maxFileSize, in lines
  maxFiles,        \* this.maxFiles
  logDir,          \* the .log files of this.logDir
  console,         \* what the logger printed on the console
  now,             \* the clock behind the mtime of the files
  lastCall,        \* the latest call of a logger method
  cleanup          \* the run of the log cleanup utility: its position, the
                   \* directory, the clock and the arguments

loggerVars == <<logEnv, logLevel, maxFileSize, maxFiles, logDir, console, now, lastCall>>

vars == <<pc, env, assetsFolder, generationTasks, assetReferences, loadFailed, tasks1, preparedAssets,
          maskIdx, maskSt, maskInFlight, maskResult, maskedAssets, timer,
          sinceSettle, gaps, maskCalls, calls, tasks3, processResults,
          reportsWritten, loggerVars, cleanup, maskSteps>>

(***************************************************************************)
(* getAssetReferences                                                      *)
(***************************************************************************)
\* the local asset references pushed by scanDirectory
LocalRefs(folder) ==
  [n \in 1..Len(folder) |->
     [type |-> "local", category |-> folder[n].category,
      filename |-> LocalFileName(n), isGenerated |-> FALSE,
      aspectRatio |-> "none", file |-> folder[n].file]]

\* categories of the brief without any local asset
MissingCategories(folder) ==
  {c \in ProductCategories : \A n \in 1..Len(folder) : folder[n].category # c}

\* the asset reference pushed for a generated asset
GeneratedRef(c, ratio) ==
  [type |-> "generated", category |-> c,
   filename |-> c \o "_generated_" \o RatioFormatted(ratio) \o ".jpg",
   isGenerated |-> TRUE, aspectRatio |-> ratio, file |-> "none"]

\* the generation tasks in creation order: category, then ratio
GenerationTasks(missing) ==
  Flatten([ci \in 1..Len(CategoryOrder) |->
     LET c == CategoryOrder[ci] IN
     IF c \in missing
     THEN [q \in 1..Len(AspectRatios) |-> <<c, AspectRatios[q]>>]
     ELSE <<>>])

\* the generation tasks with the way each settled
SettledGenerationTasks(missing, fulfilled) ==
  LET gt == GenerationTasks(missing) IN
  [k \in 1..Len(gt) |->
     [category |-> gt[k][1], ratio |-> gt[k][2],
      st |-> IF gt[k] \in fulfilled THEN "fulfilled" ELSE "rejected"]]

\* the references when one rejected task discards the whole batch
GeneratedRefsAllOrNothing(missing, fulfilled) ==
  LET gt == GenerationTasks(missing) IN
  IF \A k \in 1..Len(gt) : gt[k] \in fulfilled
  THEN [k \in 1..Len(gt) |-> GeneratedRef(gt[k][1], gt[k][2])]
  ELSE <<>>

\* generated references of the tasks that fulfilled, in task order
GeneratedRefs(missing, fulfilled) ==
  LET gt == GenerationTasks(missing)
      ok == SelectSeq(gt, LAMBDA t : t \in fulfilled)
  IN [k \in 1..Len(ok) |-> GeneratedRef(ok[k][1], ok[k][2])]

(***************************************************************************)
(* Job expansion of parallelUploadAndExpand                                *)
(***************************************************************************)
\* the error thrown while loading the asset, "none" when it loads
LoadError(ref) ==
  IF ref.type = "local" /\ ref.file = "missing" THEN "Local image file not found"
  ELSE IF ref.type = "local" /\ ref.file = "empty" THEN "Empty image buffer"
  ELSE "none"

\* the combinations when the ratio of a generated asset is not compared
CombosUnrestricted(ref) ==
  LET regions == TargetRegions(ref.category) IN
  Flatten([r \in 1..Len(regions) |->
    [q \in 1..Len(AspectRatios) |->
       [region |-> regions[r], ratio |-> AspectRatios[q]]]])

\* region x ratio combinations of one asset reference, in loop order
Combos(ref) ==
  LET regions == TargetRegions(ref.category) IN
  Flatten([r \in 1..Len(regions) |->
    Flatten([q \in 1..Len(AspectRatios) |->
      IF ref.isGenerated /\ ref.aspectRatio # AspectRatios[q]
      THEN <<>>
      ELSE << [region |-> regions[r], ratio |-> AspectRatios[q]] >>])])

\* the jobs one asset reference contributes to uploadExpandTasks
JobsOfAsset(refs, a) ==
  LET ref == refs[a] IN
  IF ref.category \notin ProductCategories THEN <<>>
  ELSE IF LoadError(ref) # "none" THEN <<>>
  ELSE LET cs == Combos(ref) IN
       [k \in 1..Len(cs) |-> [asset |-> a, region |-> cs[k].region, ratio |-> cs[k].ratio]]

\* the jobs when the asset references are walked from the last to the first
ExpandJobsLastAssetFirst(refs) ==
  Flatten([a \in 1..Len(refs) |-> JobsOfAsset(refs, Len(refs) + 1 - a)])

\* all jobs, asset by asset
ExpandJobs(refs) == Flatten([a \in 1..Len(refs) |-> JobsOfAsset(refs, a)])

\* the unit under a runner that starts one unit and queues the others
NewTask1Queued(refs, job, id) ==
  LET ref == refs[job.asset] IN
  [id |-> id, asset |-> job.asset, region |-> job.region, ratio |-> job.ratio,
   assetName |-> ref.filename, category |-> ref.category,
   isGenerated |-> ref.isGenerated,
   needsMask |-> ~ref.isGenerated,
   st |-> IF ref.isGenerated THEN "fulfilled"
          ELSE IF id = 1 THEN "uploading" ELSE "queued",
   imageUrl |-> IF ref.isGenerated THEN <<"download", job.asset>> ELSE NoUrl,
   err |-> "none"]

\* the unit pushed for job number id: a resolved promise for a generated
\* asset, a started uploadAndExpandSingle for a local one
NewTask1(refs, job, id) ==
  LET ref == refs[job.asset] IN
  [id |-> id, asset |-> job.asset, region |-> job.region, ratio |-> job.ratio,
   assetName |-> ref.filename, category |-> ref.category,
   isGenerated |-> ref.isGenerated,
   needsMask |-> ~ref.isGenerated,
   st |-> IF ref.isGenerated THEN "fulfilled" ELSE "uploading",
   imageUrl |-> IF ref.isGenerated THEN <<"download", job.asset>> ELSE NoUrl,
   err |-> "none"]

\* indexes of the asset references whose load threw (logged, then `continue`)
LoadFailures(refs) ==
  SelectSeq([a \in 1..Len(refs) |-> a],
            LAMBDA a : refs[a].category \in ProductCategories /\ LoadError(refs[a]) # "none")

\* the join when it resolves with the first unit that settles
FirstSettled(tasks) ==
  \/ Len(tasks) = 0
  \/ \E k \in 1..Len(tasks) : tasks[k].st \in {"fulfilled", "rejected"}

(***************************************************************************)
(* Phase 1: parallel upload & expand                                       *)
(***************************************************************************)
\* Promise.all instead of Promise.allSettled: resolves on the first rejection
SettledOrFirstRejection(tasks) ==
  \/ \E k \in 1..Len(tasks) : tasks[k].st = "rejected"
  \/ \A k \in 1..Len(tasks) : tasks[k].st = "fulfilled"

\* Promise.allSettled resolves once every unit is fulfilled or rejected
AllSettled(tasks) ==
  \A k \in 1..Len(tasks) : tasks[k].st \in {"fulfilled", "rejected"}

\* results stored by completion order: the first unit still pending
FirstPendingSlot(tasks, id) ==
  CHOOSE k \in 1..Len(tasks) :
    /\ tasks[k].st \notin {"fulfilled", "rejected"}
    /\ \A j \in 1..(k - 1) : tasks[j].st \in {"fulfilled", "rejected"}

\* the unit whose promise a settling collaborator call of unit id resolves
SettleSlot(tasks, id) == id

\* the value uploadAndExpandSingle (or Promise.resolve) fulfilled with
TaskValue(t) ==
  [id |-> t.id, asset |-> t.asset, region |-> t.region, ratio |-> t.ratio,
   assetName |-> t.assetName, category |-> t.category,
   isGenerated |-> t.isGenerated, needsMask |-> t.needsMask,
   imageUrl |-> t.imageUrl]

\* results.forEach without the status test: every unit's value is pushed
CollectPreparedUnfiltered(tasks) ==
  [k \in 1..Len(tasks) |-> TaskValue(tasks[k])]

\* a rejection discards the whole batch, as after Promise.all
CollectPreparedFailFast(tasks) ==
  IF \E k \in 1..Len(tasks) : tasks[k].st = "rejected"
  THEN <<>>
  ELSE [k \in 1..Len(tasks) |-> TaskValue(tasks[k])]

\* results.forEach of parallelUploadAndExpand: fulfilled values in task order
CollectPrepared(tasks) ==
  LET ok == SelectSeq(tasks, LAMBDA t : t.st = "fulfilled")
  IN [k \in 1..Len(ok) |-> TaskValue(ok[k])]

(***************************************************************************)
(* Phase 2: sequential mask creation                                       *)
(***************************************************************************)
\* createMask called without `await`
CreateMaskNotAwaited == FALSE

\* `await createMask(...)`: the loop is suspended until the call settles
AwaitsCreateMask == TRUE

\* the awaited calls of the createMask helper, in the order of its code
CreateMaskSteps ==
  <<"maskPutUrl", "maskGetUrl", "createMask",
    "invertPutUrl", "invertGetUrl", "playPhotoshopActionsJson">>

\* the helper when the invert action comes before the mask creation
StepAfterInvertFirst(steps) ==
  LET order == <<"maskPutUrl", "maskGetUrl", "invertPutUrl", "invertGetUrl",
                 "playPhotoshopActionsJson", "createMask">>
  IN order[Len(steps) + 1]

\* the call the helper awaits after the calls of `steps` resolved
StepAfter(steps) == CreateMaskSteps[Len(steps) + 1]

\* the presigned GET URL issued for the mask and for the inverted mask
maskPresignedGetUrl(id) == <<"uninverted", id>>

invertMaskPresignedGetUrl(id) == <<"mask", id>>

\* the prepared asset of job id
PreparedOf(prepared, id) ==
  prepared[CHOOSE k \in 1..Len(prepared) : prepared[k].id = id]

\* a retry in the catch block: the same iteration runs again
IndexAfterRetry(i, n) == i

\* a `break` in the catch block: the loop is left
IndexAfterBreak(i, n) == n + 1

\* loop index after the catch block of iteration i of n
IndexAfterCatch(i, n) == i + 1

\* the delay condition after a successful iteration i (1-based) of n
NeedsDelay(asset, i, n) == asset.needsMask /\ i < n

\* the entry pushed to maskedAssets
Masked(asset, maskUrl) ==
  [id |-> asset.id, asset |-> asset.asset, region |-> asset.region,
   ratio |-> asset.ratio, assetName |-> asset.assetName,
   category |-> asset.category, isGenerated |-> asset.isGenerated,
   needsMask |-> asset.needsMask, imageUrl |-> asset.imageUrl,
   maskUrl |-> maskUrl]

(***************************************************************************)
(* Phase 3: parallel fill & text overlay                                   *)
(***************************************************************************)
\* processFillAndOverlay when it fills whatever the asset is
NewTask3AlwaysFills(asset) ==
  [id |-> asset.id, asset |-> asset.asset, region |-> asset.region,
   ratio |-> asset.ratio, assetName |-> asset.assetName,
   category |-> asset.category, isGenerated |-> asset.isGenerated,
   needsMask |-> asset.needsMask, imageUrl |-> asset.imageUrl,
   maskUrl |-> asset.maskUrl,
   st |-> "fill",
   success |-> FALSE, error |-> "none", failedAt |-> "none",
   presignedGetUrl |-> NoUrl]

\* processFillAndOverlay up to its first await
NewTask3(asset) ==
  [id |-> asset.id, asset |-> asset.asset, region |-> asset.region,
   ratio |-> asset.ratio, assetName |-> asset.assetName,
   category |-> asset.category, isGenerated |-> asset.isGenerated,
   needsMask |-> asset.needsMask, imageUrl |-> asset.imageUrl,
   maskUrl |-> asset.maskUrl,
   st |-> IF asset.needsMask /\ asset.maskUrl # NoUrl THEN "fill" ELSE "puturl",
   success |-> FALSE, error |-> "none", failedAt |-> "none",
   presignedGetUrl |-> NoUrl]

\* the collaborator call in flight at each position of processFillAndOverlay;
\* addTextOverlay awaits the download of the image ("overlay") and then the
\* upload of the result ("upload")
CallAt(st) ==
  IF st = "fill" THEN "fillImage"
  ELSE IF st = "puturl" THEN "getPresignedPutUrl"
  ELSE IF st \in {"overlay", "upload"} THEN "addTextOverlay"
  ELSE "getPresignedGetUrl"

\* the position after the call at st returned
NextStep(st) ==
  IF st = "fill" THEN "puturl"
  ELSE IF st = "puturl" THEN "overlay"
  ELSE IF st = "overlay" THEN "upload"
  ELSE IF st = "upload" THEN "geturl"
  ELSE "fulfilled"

\* addTextOverlay when the response of the upload is not looked at
UploadResponseUnchecked(st) == st # "upload"

\* a call that did not succeed throws: the collaborators reject, and
\* addTextOverlay throws on a response that is not ok
Throws(st) == TRUE

\* error.message of a failed call
ErrorMessage(call) == call \o " failed"

\* new Date().toISOString() of an outcome object; the clock value is not
\* modelled
Timestamp == "toISOString"

\* the `data` object when the steps of a local asset are always reported
SuccessDataAllSteps(t) ==
  [assetName |-> t.assetName, productCategory |-> t.category,
   region |-> t.region, aspectRatio |-> t.ratio,
   presignedGetUrl |-> t.presignedGetUrl,
   isGenerated |-> t.isGenerated,
   processingSteps |-> <<"upload", "expand", "mask", "fill", "text_overlay">>,
   timestamp |-> Timestamp]

\* the `data` object of a success result
SuccessData(t) ==
  [assetName |-> t.assetName, productCategory |-> t.category,
   region |-> t.region, aspectRatio |-> t.ratio,
   presignedGetUrl |-> t.presignedGetUrl,
   isGenerated |-> t.isGenerated,
   processingSteps |-> IF t.isGenerated THEN <<"text_overlay">>
                       ELSE <<"upload", "expand", "mask", "fill", "text_overlay">>,
   timestamp |-> Timestamp]

\* the `error` object of a failure result
FailureData(t) ==
  [assetName |-> t.assetName, productCategory |-> t.category,
   region |-> t.region, aspectRatio |-> t.ratio, error |-> t.error,
   timestamp |-> Timestamp]

\* the empty processResults of parallelFillAndOverlay
EmptyResults(total, processed) ==
  [success |-> <<>>, failures |-> <<>>,
   summary |-> [total |-> total, processed |-> processed,
                succeeded |-> 0, failed |-> 0]]

\* the iteration when the fallback object is pushed for every failure
RecordResultErrorOnly(acc, t) ==
  IF t.st = "fulfilled" /\ t.success
  THEN [acc EXCEPT !.success = Append(@, SuccessData(t)),
                   !.summary.succeeded = @ + 1]
  ELSE [acc EXCEPT !.failures = Append(@, [error |-> t.error]),
                   !.summary.failed = @ + 1]

\* the failure branch without `summary.failed++`
RecordResultFailedUncounted(acc, t) ==
  IF t.st = "fulfilled" /\ t.success
  THEN [acc EXCEPT !.success = Append(@, SuccessData(t)),
                   !.summary.succeeded = @ + 1]
  ELSE [acc EXCEPT !.failures = Append(@, FailureData(t))]

\* the iteration when an outcome is put at the front of its list
RecordResultAtFront(acc, t) ==
  IF t.st = "fulfilled" /\ t.success
  THEN [acc EXCEPT !.success = <<SuccessData(t)>> \o @,
                   !.summary.succeeded = @ + 1]
  ELSE [acc EXCEPT !.failures = <<FailureData(t)>> \o @,
                   !.summary.failed = @ + 1]

\* one iteration of results.forEach in parallelFillAndOverlay
RecordResult(acc, t) ==
  IF t.st = "fulfilled" /\ t.success
  THEN [acc EXCEPT !.success = Append(@, SuccessData(t)),
                   !.summary.succeeded = @ + 1]
  ELSE [acc EXCEPT !.failures = Append(@, FailureData(t)),
                   !.summary.failed = @ + 1]

RECURSIVE AggregateFrom(_, _, _)
AggregateFrom(results, k, acc) ==
  IF k > Len(results) THEN acc
  ELSE AggregateFrom(results, k + 1, RecordResult(acc, results[k]))

\* processResults as built by parallelFillAndOverlay
Aggregate(masked, results) ==
  AggregateFrom(results, 1, EmptyResults(Len(masked), Len(results)))

\* a unit that pushes its own outcome when it settles
SharedPushedByUnit(acc, t) ==
  IF t.st = "fulfilled" THEN RecordResult(acc, t) ELSE acc

\* the result collections after a step of processFillAndOverlay: the unit
\* returns its outcome and leaves them alone
SharedAfterUnit(acc, t) == acc

(***************************************************************************)
(* The logger of src/logger.js.  A file is a record of its name, its lines *)
(* and its mtime; the size of a file is its number of lines.  A name is    *)
(* <<base, stamp>>: stamp 0 for the file of the day, the time of the       *)
(* rotation for a rotated file.                                            *)
(***************************************************************************)
LevelNames == {"error", "warn", "info", "debug"}

\* this.levels
levels == [l \in LevelNames |->
            IF l = "error" THEN 0 ELSE IF l = "warn" THEN 1
            ELSE IF l = "info" THEN 2 ELSE 3]

\* values of LOG_LEVEL: not set, the four levels, a name that is no level
LogLevelSettings == {"unset"} \cup LevelNames \cup {"verbose"}

\* values of LOG_MAX_SIZE and LOG_MAX_FILES
MaxSizeSettings == {"unset", "0", "1", "2"}

MaxFilesSettings == {"unset", "1", "2"}

\* process.env.LOG_LEVEL || 'info'
LogLevelOf(setting) == IF setting = "unset" THEN DefaultLogLevel ELSE setting

\* the number NaN
NaN == -1

\* parseInt of a setting; parseInt(undefined) is NaN
parseInt(setting) ==
  IF setting = "0" THEN 0
  ELSE IF setting = "1" THEN 1
  ELSE IF setting = "2" THEN 2
  ELSE NaN

\* parseInt(setting) || default: NaN and 0 are falsy
ParseIntOr(setting, default) ==
  LET v == parseInt(setting) IN
  IF v = NaN \/ v = 0 THEN default ELSE v

CurrentLogFile == <<"app", 0>>

CurrentErrorFile == <<"error", 0>>

\* log files left in the directory by earlier runs
OldLogDirs ==
  {{}, {[name |-> <<"app", -1>>, lines |-> <<[level |-> "info", n |-> 0]>>, mtime |-> -1]}}

\* shouldLog when the comparison is turned around
ShouldLogInverted(level, configured) ==
  /\ configured \in LevelNames
  /\ levels[level] >= levels[configured]

\* shouldLog: a comparison with the undefined rank of an unknown level is false
shouldLog(level, configured) ==
  /\ configured \in LevelNames
  /\ levels[level] <= levels[configured]

\* formatMessage: the level and the text of call n
formatMessage(level, n) == [level |-> level, n |-> n]

Exists(dir, name) == \E f \in dir : f.name = name

FileOf(dir, name) == CHOOSE f \in dir : f.name = name

\* cleanOldFiles: the maxFiles files of latest mtime stay
cleanOldFiles(dir, keep) ==
  {f \in dir : Cardinality({g \in dir : g.mtime > f.mtime}) < keep}

\* fs.renameSync of a log file to its rotated name; the mtime stays
renameSync(dir, name, time) ==
  LET f == FileOf(dir, name) IN
  (dir \ {f}) \cup {[f EXCEPT !.name = <<name[1], time>>]}

\* rotateLogFile when the size is never looked at
RotateLogFileNever(dir, name, size, keep, time) == dir

\* rotateLogFile: rename the file when it reached the size, then clean
rotateLogFile(dir, name, size, keep, time) ==
  IF ~Exists(dir, name) THEN dir
  ELSE LET f == FileOf(dir, name) IN
       IF Len(f.lines) >= size
       THEN cleanOldFiles(renameSync(dir, name, time), keep)
       ELSE dir

\* fs.appendFileSync
appendFile(dir, name, message, time) ==
  IF Exists(dir, name)
  THEN LET f == FileOf(dir, name) IN
       (dir \ {f}) \cup {[f EXCEPT !.lines = Append(@, message), !.mtime = time]}
  ELSE dir \cup {[name |-> name, lines |-> <<message>>, mtime |-> time]}

\* where a call of writeToFile can throw
Faults == {"none", "rotate", "cleanup", "append"}

\* writeToFile: the directory after the try block
writeToFile(dir, name, message, size, keep, time, fault) ==
  IF fault = "rotate" THEN dir
  ELSE IF fault = "cleanup"
  THEN IF Exists(dir, name) /\ Len(FileOf(dir, name).lines) >= size
       THEN renameSync(dir, name, time)
       ELSE dir
  ELSE IF fault = "append" THEN rotateLogFile(dir, name, size, keep, time)
  ELSE appendFile(rotateLogFile(dir, name, size, keep, time), name, message, time)

\* the console after writeToFile: the fallback line of its catch block
consoleAfterWrite(out, fault) ==
  IF fault = "none" THEN out ELSE Append(out, [level |-> "fallback", n |-> 0])

\* writeToFile when it has no catch block: the failure reaches the caller
ThrownUncaught(fault) == fault # "none"

\* writeToFile throws to its caller: never, the catch block ends normally
thrown(fault) == FALSE

NoCall == [level |-> "none", n |-> 0, faults |-> <<>>, threw |-> FALSE]

LoggerConstructed(level, size, files, dir) ==
  /\ logEnv = [LOG_LEVEL |-> level, LOG_MAX_SIZE |-> size, LOG_MAX_FILES |-> files]
  /\ logLevel = LogLevelOf(level)
  /\ maxFileSize = ParseIntOr(size, DefaultMaxFileSize)
  /\ maxFiles = ParseIntOr(files, DefaultMaxFiles)
  /\ logDir = dir
  /\ console = <<>>
  /\ now = 1
  /\ lastCall = NoCall

(***************************************************************************)
(* The log cleanup utility (cleanup-logs.js).  A file name is              *)
(* [base, day, rotatedOn]: app-<day>.log has rotatedOn = NotRotated,       *)
(* app-<day>-<timestamp>.log has the day of its timestamp in rotatedOn.    *)
(* A day is a number of days since 2025-08-27; NoDate is a name without    *)
(* the pattern dddd-dd-dd, InvalidDate a name whose pattern is no date of  *)
(* the calendar.                                                           *)
(***************************************************************************)
NoDate == -1

InvalidDate == -2

NotRotated == -1

Days == 0..MaxDay

\* the dates '2025-08-27' and '2025-08-28' of the script
RecentDays == {0, 1}

DailyNames ==
  [base : {"app", "error"}, day : Days \cup {NoDate, InvalidDate}, rotatedOn : {NotRotated}]

RotatedNames ==
  {n \in [base : {"app", "error"}, day : Days, rotatedOn : Days] : n.rotatedOn >= n.day}

LogNames == DailyNames \cup RotatedNames

\* the sets of at most k file names
RECURSIVE DirsUpTo(_)
DirsUpTo(k) ==
  IF k = 0 THEN {{}}
  ELSE LET smaller == DirsUpTo(k - 1) IN
       smaller \cup {d \cup {n} : d \in smaller, n \in LogNames}

\* the directories the utility can find
LogDirs == DirsUpTo(MaxDirFiles)

\* new Date().toISOString().slice(0, 10)
today(time) == time \div MsPerDay

\* file.name.includes(date)
includes(name, day) == name.day = day \/ name.rotatedOn = day

\* the three groups of the script
fileGroups(files, time) ==
  [current |-> {f \in files : includes(f, today(time))},
   old     |-> {f \in files : /\ ~includes(f, today(time))
                              /\ \E d \in RecentDays : includes(f, d)},
   rotated |-> {f \in files : /\ ~includes(f, today(time))
                              /\ ~\E d \in RecentDays : includes(f, d)}]

\* file.name.match(/(\d{4}-\d{2}-\d{2})/): the first date pattern of the name
fileDate(name) == name.day

\* daysDiff when the difference is rounded up
DaysDiffCeiling(name, time) ==
  (time - fileDate(name) * MsPerDay + MsPerDay - 1) \div MsPerDay

\* Math.floor((Date.now() - new Date(fileDate[1])) / (1000 * 60 * 60 * 24))
daysDiff(name, time) == (time - fileDate(name) * MsPerDay) \div MsPerDay

\* --auto: a name without date pattern goes; an invalid date gives NaN, and
\* NaN > 2 is false
filesToDelete(files, time) ==
  {f \in files :
     \/ fileDate(f) = NoDate
     \/ fileDate(f) # InvalidDate /\ daysDiff(f, time) > KeepDays}

Options == {"--auto", "--rotated", "--all"}

NoCleanup ==
  [pc |-> "none", exists |-> FALSE, dir |-> {}, time |-> 0, args |-> {},
   files |-> {}, groups |-> [current |-> {}, old |-> {}, rotated |-> {}]]

(***************************************************************************)
(* Initial state                                                           *)
(***************************************************************************)
\* one scanned image file; the file of a category without configuration is
\* never opened, so its state is left at "ok"
FolderEntries ==
  {e \in [category : FolderCategories, file : FileStates] :
     e.category \notin ProductCategories => e.file = "ok"}

\* the scanned image files, in scan order
Folders == UNION {[1..n -> FolderEntries] : n \in 0..MaxLocalAssets}

Init ==
  /\ pc = "start"
  /\ env \in SUBSET RequiredSettings
  /\ assetsFolder \in {f \in Folders : Len(ExpandJobs(LocalRefs(f))) <= MaxJobs}
  /\ generationTasks = <<>>
  /\ assetReferences = <<>>
  /\ loadFailed = <<>>
  /\ tasks1 = <<>>
  /\ preparedAssets = <<>>
  /\ maskIdx = 1
  /\ maskSt = "idle"
  /\ maskInFlight = {}
  /\ maskResult = <<>>
  /\ maskSteps = <<>>
  /\ maskedAssets = <<>>
  /\ timer = 0
  /\ sinceSettle = -1
  /\ gaps = <<>>
  /\ maskCalls = <<>>
  /\ calls = <<>>
  /\ tasks3 = <<>>
  /\ processResults = EmptyResults(0, 0)
  /\ reportsWritten = 0
  /\ LoggerConstructed("unset", "unset", "unset", {})
  /\ cleanup = NoCleanup

(***************************************************************************)
(* Actions                                                                 *)
(***************************************************************************)
\* the checks at the top of the script: process.exit(1) when a required
\* setting is missing, otherwise main() is called
ValidateEnv ==
  /\ pc = "start"
  /\ pc' = IF AdobeSettings \subseteq env /\ S3Settings \subseteq env
           THEN "getAssets"
           ELSE "envExit"
  /\ UNCHANGED <<env, loggerVars, cleanup, maskSteps, assetsFolder, generationTasks, assetReferences, loadFailed, tasks1, preparedAssets,
                 maskIdx, maskSt, maskInFlight, maskResult, maskedAssets, timer,
                 sinceSettle, gaps, maskCalls, calls, tasks3, processResults,
                 reportsWritten>>

\* getAssetReferences: scan, generate the missing categories, throw when
\* nothing was found or generated
GetAssetReferences ==
  /\ pc = "getAssets"
  /\ LET missing == MissingCategories(assetsFolder) IN
     \E fulfilled \in SUBSET Range(GenerationTasks(missing)) :
       LET refs == LocalRefs(assetsFolder) \o GeneratedRefs(missing, fulfilled) IN
       /\ Len(ExpandJobs(refs)) <= MaxJobs
       /\ assetReferences' = refs
       /\ generationTasks' = SettledGenerationTasks(missing, fulfilled)
       /\ pc' = IF refs = <<>> THEN "fatal" ELSE "expand"
  /\ UNCHANGED <<env, loggerVars, cleanup, maskSteps, assetsFolder, loadFailed, tasks1, preparedAssets, maskIdx, maskSt, maskInFlight, maskResult,
                 maskedAssets, timer, sinceSettle, gaps, maskCalls, calls, tasks3,
                 processResults, reportsWritten>>

\* parallelUploadAndExpand up to `await Promise.allSettled`
Expand ==
  /\ pc = "expand"
  /\ LET jobs == ExpandJobs(assetReferences) IN
     /\ tasks1' = [id \in 1..Len(jobs) |-> NewTask1(assetReferences, jobs[id], id)]
     /\ calls' = [id \in 1..Len(jobs) |->
                    IF assetReferences[jobs[id].asset].isGenerated THEN {} ELSE {"uploadImage"}]
     /\ maskResult' = [id \in 1..Len(jobs) |-> "none"]
     /\ maskSteps' = [id \in 1..Len(jobs) |-> <<>>]
  /\ loadFailed' = LoadFailures(assetReferences)
  /\ pc' = "phase1"
  /\ UNCHANGED <<env, loggerVars, cleanup, assetsFolder, generationTasks, assetReferences, preparedAssets, maskIdx, maskSt, maskInFlight,
                 maskedAssets, timer, sinceSettle, gaps, maskCalls, tasks3,
                 processResults, reportsWritten>>

\* firefly.upload of unit id settles
UploadSettle(id, ok) ==
  /\ pc = "phase1"
  /\ id \in 1..Len(tasks1)
  /\ tasks1[id].st = "uploading"
  /\ LET slot == SettleSlot(tasks1, id) IN
     IF ok
     THEN /\ tasks1' = [tasks1 EXCEPT ![slot].st = "expanding"]
          /\ calls' = [calls EXCEPT ![id] = @ \cup {"expandImage"}]
     ELSE /\ tasks1' = [tasks1 EXCEPT ![slot].st = "rejected",
                                      ![slot].err = ErrorMessage("uploadImage")]
          /\ UNCHANGED calls
  /\ UNCHANGED <<pc, env, loggerVars, cleanup, maskSteps, assetsFolder, generationTasks, assetReferences, loadFailed, preparedAssets,
                 maskIdx, maskSt, maskInFlight, maskResult, maskedAssets, timer, sinceSettle, gaps, maskCalls,
                 tasks3, processResults, reportsWritten>>

\* firefly.expandImage of unit id settles
ExpandSettle(id, ok) ==
  /\ pc = "phase1"
  /\ id \in 1..Len(tasks1)
  /\ tasks1[id].st = "expanding"
  /\ LET slot == SettleSlot(tasks1, id) IN
     IF ok
     THEN tasks1' = [tasks1 EXCEPT ![slot].st = "fulfilled",
                                   ![slot].imageUrl = <<"expanded", id>>]
     ELSE tasks1' = [tasks1 EXCEPT ![slot].st = "rejected",
                                   ![slot].err = ErrorMessage("expandImage")]
  /\ UNCHANGED <<pc, env, loggerVars, cleanup, maskSteps, assetsFolder, generationTasks, assetReferences, loadFailed, preparedAssets,
                 maskIdx, maskSt, maskInFlight, maskResult, maskedAssets, timer, sinceSettle, gaps, maskCalls,
                 calls, tasks3, processResults, reportsWritten>>

\* Promise.allSettled resolves; preparedAssets is collected and
\* sequentialMaskCreation is entered
Phase1Join ==
  /\ pc = "phase1"
  /\ AllSettled(tasks1)
  /\ preparedAssets' = CollectPrepared(tasks1)
  /\ pc' = "phase2"
  /\ maskIdx' = 1
  /\ maskSt' = "idle"
  /\ UNCHANGED <<env, loggerVars, cleanup, maskSteps, assetsFolder, generationTasks, assetReferences, loadFailed, tasks1, maskInFlight, maskResult, maskedAssets,
                 timer, sinceSettle, gaps, maskCalls, calls, tasks3, processResults,
                 reportsWritten>>

\* one iteration of the for loop of sequentialMaskCreation up to its first
\* await: start createMask for a local asset, push a generated one through
MaskIterate ==
  /\ pc = "phase2"
  /\ maskSt = "idle"
  /\ maskIdx <= Len(preparedAssets)
  /\ LET asset == preparedAssets[maskIdx] IN
     IF asset.needsMask
     THEN /\ maskInFlight' = maskInFlight \cup {asset.id}
          /\ calls' = [calls EXCEPT ![asset.id] = @ \cup {"createMask"}]
          /\ maskCalls' = Append(maskCalls, asset.id)
          /\ maskSteps' = [maskSteps EXCEPT ![asset.id] = <<StepAfter(<<>>)>>]
          /\ gaps' = IF sinceSettle = -1 THEN gaps ELSE Append(gaps, sinceSettle)
          /\ IF AwaitsCreateMask
             THEN /\ maskSt' = "awaiting"
                  /\ UNCHANGED <<maskIdx, maskedAssets, timer>>
             ELSE \* without the await the pending promise is pushed as maskUrl
                  /\ maskedAssets' =
                       Append(maskedAssets, Masked(asset, <<"promise", asset.id>>))
                  /\ IF NeedsDelay(asset, maskIdx, Len(preparedAssets))
                     THEN /\ maskSt' = "delay"
                          /\ timer' = MaskDelayMs
                          /\ UNCHANGED maskIdx
                     ELSE /\ maskIdx' = maskIdx + 1
                          /\ UNCHANGED <<maskSt, timer>>
     ELSE /\ maskedAssets' = Append(maskedAssets, Masked(asset, NoUrl))
          /\ maskIdx' = maskIdx + 1
          /\ UNCHANGED <<maskSt, maskInFlight, calls, maskCalls, gaps, timer, maskSteps>>
  /\ UNCHANGED <<pc, env, loggerVars, cleanup, assetsFolder, generationTasks, assetReferences, loadFailed, tasks1, preparedAssets,
                 maskResult, sinceSettle, tasks3, processResults, reportsWritten>>

\* the call awaited by the createMask helper of job id resolves and the
\* helper goes on to its next call
CreateMaskStep(id) ==
  /\ pc = "phase2"
  /\ id \in maskInFlight
  /\ Len(maskSteps[id]) < Len(CreateMaskSteps)
  /\ maskSteps' = [maskSteps EXCEPT ![id] = Append(@, StepAfter(@))]
  /\ UNCHANGED <<pc, env, loggerVars, cleanup, assetsFolder, generationTasks, assetReferences, loadFailed, tasks1, preparedAssets,
                 maskIdx, maskSt, maskInFlight, maskResult, maskedAssets, timer, sinceSettle, gaps, maskCalls,
                 calls, tasks3, processResults, reportsWritten>>

\* the createMask call of job id settles, with the URL of the inverted mask
\* after its last call resolved, or rethrowing the error of the call it
\* awaits: push and maybe delay, or catch and go on with the next asset
MaskSettle(id, ok) ==
  /\ pc = "phase2"
  /\ id \in maskInFlight
  /\ ok => Len(maskSteps[id]) = Len(CreateMaskSteps)
  /\ maskSteps' = [maskSteps EXCEPT ![id] = <<>>]
  /\ maskInFlight' = maskInFlight \ {id}
  /\ maskResult' = [maskResult EXCEPT ![id] = IF ok THEN "ok" ELSE "failed"]
  /\ sinceSettle' = 0
  /\ LET asset == PreparedOf(preparedAssets, id)
         n == Len(preparedAssets) IN
     IF maskSt = "awaiting"
     THEN IF ok
          THEN /\ maskedAssets' = Append(maskedAssets, Masked(asset, invertMaskPresignedGetUrl(id)))
               /\ IF NeedsDelay(asset, maskIdx, n)
                  THEN /\ maskSt' = "delay"
                       /\ timer' = MaskDelayMs
                       /\ UNCHANGED maskIdx
                  ELSE /\ maskSt' = "idle"
                       /\ maskIdx' = maskIdx + 1
                       /\ UNCHANGED timer
          ELSE /\ maskSt' = "idle"
               /\ maskIdx' = IndexAfterCatch(maskIdx, n)
               /\ UNCHANGED <<maskedAssets, timer>>
     ELSE UNCHANGED <<maskedAssets, maskSt, maskIdx, timer>>
  /\ UNCHANGED <<pc, env, loggerVars, cleanup, assetsFolder, generationTasks, assetReferences, loadFailed, tasks1, preparedAssets,
                 gaps, maskCalls, calls, tasks3, processResults, reportsWritten>>

\* time passes while the loop waits on setTimeout
Tick ==
  /\ pc = "phase2"
  /\ maskSt = "delay"
  /\ timer > 0
  /\ timer' = Max(0, timer - TickMs)
  /\ sinceSettle' = Min(MaskDelayMs, sinceSettle + TickMs)
  /\ UNCHANGED <<pc, env, loggerVars, cleanup, maskSteps, assetsFolder, generationTasks, assetReferences, loadFailed, tasks1, preparedAssets,
                 maskIdx, maskSt, maskInFlight, maskResult, maskedAssets, gaps, maskCalls, calls, tasks3,
                 processResults, reportsWritten>>

\* the setTimeout promise resolves; the loop goes to the next iteration
DelayDone ==
  /\ pc = "phase2"
  /\ maskSt = "delay"
  /\ timer = 0
  /\ maskSt' = "idle"
  /\ maskIdx' = maskIdx + 1
  /\ UNCHANGED <<pc, env, loggerVars, cleanup, maskSteps, assetsFolder, generationTasks, assetReferences, loadFailed, tasks1, preparedAssets,
                 maskInFlight, maskResult, maskedAssets, timer, sinceSettle, gaps, maskCalls, calls, tasks3,
                 processResults, reportsWritten>>

\* sequentialMaskCreation returns; parallelFillAndOverlay maps every masked
\* asset to a started processFillAndOverlay
StartPhase3 ==
  /\ pc = "phase2"
  /\ maskSt = "idle"
  /\ maskIdx > Len(preparedAssets)
  /\ tasks3' = [k \in 1..Len(maskedAssets) |-> NewTask3(maskedAssets[k])]
  /\ calls' = [id \in DOMAIN calls |->
                 IF \E k \in 1..Len(maskedAssets) : maskedAssets[k].id = id
                 THEN LET k == CHOOSE k \in 1..Len(maskedAssets) : maskedAssets[k].id = id
                      IN calls[id] \cup {CallAt(NewTask3(maskedAssets[k]).st)}
                 ELSE calls[id]]
  /\ pc' = "phase3"
  /\ UNCHANGED <<env, loggerVars, cleanup, maskSteps, assetsFolder, generationTasks, assetReferences, loadFailed, tasks1, preparedAssets,
                 maskIdx, maskSt, maskInFlight, maskResult, maskedAssets, timer, sinceSettle, gaps, maskCalls,
                 processResults, reportsWritten>>

\* the collaborator call awaited by unit k of phase 3 settles
FinalSettle(k, ok) ==
  /\ pc = "phase3"
  /\ k \in 1..Len(tasks3)
  /\ tasks3[k].st # "fulfilled"
  /\ LET t == tasks3[k]
         slot == SettleSlot(tasks3, k)
         next == NextStep(t.st) IN
     IF ok \/ ~Throws(t.st)
     THEN /\ tasks3' = [tasks3 EXCEPT
                 ![slot].st = next,
                 ![slot].failedAt = IF ok THEN @ ELSE t.st,
                 ![slot].imageUrl = IF t.st = "fill" THEN <<"filled", t.id>> ELSE @,
                 ![slot].success = (next = "fulfilled"),
                 ![slot].presignedGetUrl = IF next = "fulfilled" THEN <<"final", t.id>> ELSE @]
          /\ calls' = IF next = "fulfilled" THEN calls
                      ELSE [calls EXCEPT ![t.id] = @ \cup {CallAt(next)}]
          /\ processResults' = SharedAfterUnit(processResults, tasks3'[slot])
     ELSE /\ tasks3' = [tasks3 EXCEPT ![slot].st = "fulfilled",
                                      ![slot].success = FALSE,
                                      ![slot].failedAt = t.st,
                                      ![slot].error = ErrorMessage(CallAt(t.st))]
          /\ processResults' = SharedAfterUnit(processResults, tasks3'[slot])
          /\ UNCHANGED calls
  /\ UNCHANGED <<pc, env, loggerVars, cleanup, maskSteps, assetsFolder, generationTasks, assetReferences, loadFailed, tasks1, preparedAssets,
                 maskIdx, maskSt, maskInFlight, maskResult, maskedAssets, timer, sinceSettle, gaps, maskCalls,
                 reportsWritten>>

\* Promise.allSettled of phase 3 resolves; the results are aggregated and
\* returned to main()
Phase3Join ==
  /\ pc = "phase3"
  /\ AllSettled(tasks3)
  /\ processResults' = Aggregate(maskedAssets, tasks3)
  /\ pc' = "report"
  /\ UNCHANGED <<env, loggerVars, cleanup, maskSteps, assetsFolder, generationTasks, assetReferences, loadFailed, tasks1, preparedAssets,
                 maskIdx, maskSt, maskInFlight, maskResult, maskedAssets, timer, sinceSettle, gaps, maskCalls,
                 calls, tasks3, reportsWritten>>

\* main() writes the results file and returns
WriteReport ==
  /\ pc = "report"
  /\ reportsWritten' = reportsWritten + 1
  /\ pc' = "done"
  /\ UNCHANGED <<env, loggerVars, cleanup, maskSteps, assetsFolder, generationTasks, assetReferences, loadFailed, tasks1, preparedAssets,
                 maskIdx, maskSt, maskInFlight, maskResult, maskedAssets, timer, sinceSettle, gaps, maskCalls,
                 calls, tasks3, processResults>>

Next ==
  \/ ValidateEnv
  \/ GetAssetReferences
  \/ Expand
  \/ \E id \in 1..MaxJobs, ok \in BOOLEAN : UploadSettle(id, ok)
  \/ \E id \in 1..MaxJobs, ok \in BOOLEAN : ExpandSettle(id, ok)
  \/ Phase1Join
  \/ MaskIterate
  \/ \E id \in 1..MaxJobs : CreateMaskStep(id)
  \/ \E id \in 1..MaxJobs, ok \in BOOLEAN : MaskSettle(id, ok)
  \/ Tick
  \/ DelayDone
  \/ StartPhase3
  \/ \E k \in 1..MaxJobs, ok \in BOOLEAN : FinalSettle(k, ok)
  \/ Phase3Join
  \/ WriteReport

Spec == Init /\ [][Next]_vars

\* the exit status of the process: process.exit(1) of the environment checks
\* and of main().catch, 0 otherwise
ExitStatus == IF pc \in {"envExit", "fatal"} THEN 1 ELSE 0

(***************************************************************************)
(* The logger on its own: the methods are called in any order.             *)
(***************************************************************************)
pipelineVars ==
  <<pc, env, assetsFolder, generationTasks, assetReferences, loadFailed, tasks1,
    preparedAssets, maskIdx, maskSt, maskInFlight, maskResult, maskedAssets,
    timer, sinceSettle, gaps, maskCalls, calls, tasks3, processResults,
    reportsWritten, maskSteps>>

LoggerInit ==
  /\ pc = "start"
  /\ env = RequiredSettings
  /\ assetsFolder = <<>>
  /\ generationTasks = <<>>
  /\ assetReferences = <<>>
  /\ loadFailed = <<>>
  /\ tasks1 = <<>>
  /\ preparedAssets = <<>>
  /\ maskIdx = 1
  /\ maskSt = "idle"
  /\ maskInFlight = {}
  /\ maskResult = <<>>
  /\ maskSteps = <<>>
  /\ maskedAssets = <<>>
  /\ timer = 0
  /\ sinceSettle = -1
  /\ gaps = <<>>
  /\ maskCalls = <<>>
  /\ calls = <<>>
  /\ tasks3 = <<>>
  /\ processResults = EmptyResults(0, 0)
  /\ reportsWritten = 0
  /\ \E level \in LogLevelSettings, size \in MaxSizeSettings,
        files \in MaxFilesSettings, dir \in OldLogDirs :
       LoggerConstructed(level, size, files, dir)
  /\ cleanup = NoCleanup

\* error(): console.error, then the error file, then the main file
LogError(f1, f2) ==
  /\ lastCall.n < MaxLogCalls
  /\ LET n == lastCall.n + 1
         message == formatMessage("error", n) IN
     IF shouldLog("error", logLevel)
     THEN LET dir1 == writeToFile(logDir, CurrentErrorFile, message,
                                  maxFileSize, maxFiles, now, f1)
              dir2 == writeToFile(dir1, CurrentLogFile, message,
                                  maxFileSize, maxFiles, now + 1, f2)
          IN IF thrown(f1)
             THEN /\ f2 = "none"
                  /\ console' = Append(console, message)
                  /\ logDir' = dir1
                  /\ now' = now + 2
                  /\ lastCall' = [level |-> "error", n |-> n,
                                  faults |-> <<f1, f2>>, threw |-> TRUE]
             ELSE /\ console' = consoleAfterWrite(
                                  consoleAfterWrite(Append(console, message), f1), f2)
                  /\ logDir' = dir2
                  /\ now' = now + 2
                  /\ lastCall' = [level |-> "error", n |-> n,
                                  faults |-> <<f1, f2>>, threw |-> thrown(f2)]
     ELSE /\ f1 = "none"
          /\ f2 = "none"
          /\ lastCall' = [level |-> "error", n |-> n, faults |-> <<>>,
                          threw |-> FALSE]
          /\ UNCHANGED <<console, logDir, now>>
  /\ UNCHANGED <<logEnv, logLevel, maxFileSize, maxFiles, pipelineVars, cleanup>>

\* the body shared by warn(), info() and debug()
LogToMain(level, f) ==
  /\ lastCall.n < MaxLogCalls
  /\ LET n == lastCall.n + 1
         message == formatMessage(level, n) IN
     IF shouldLog(level, logLevel)
     THEN /\ console' = consoleAfterWrite(Append(console, message), f)
          /\ logDir' = writeToFile(logDir, CurrentLogFile, message,
                                   maxFileSize, maxFiles, now, f)
          /\ now' = now + 1
          /\ lastCall' = [level |-> level, n |-> n, faults |-> <<f>>,
                          threw |-> thrown(f)]
     ELSE /\ f = "none"
          /\ lastCall' = [level |-> level, n |-> n, faults |-> <<>>,
                          threw |-> FALSE]
          /\ UNCHANGED <<console, logDir, now>>
  /\ UNCHANGED <<logEnv, logLevel, maxFileSize, maxFiles, pipelineVars, cleanup>>

LogWarn(f) == LogToMain("warn", f)

LogInfo(f) == LogToMain("info", f)

LogDebug(f) == LogToMain("debug", f)

LoggerNext ==
  \/ \E f1, f2 \in Faults : LogError(f1, f2)
  \/ \E f \in Faults : LogWarn(f)
  \/ \E f \in Faults : LogInfo(f)
  \/ \E f \in Faults : LogDebug(f)

LoggerSpec == LoggerInit /\ [][LoggerNext]_vars

(***************************************************************************)
(* The log cleanup utility on its own: one run of the script.              *)
(***************************************************************************)
CleanupInit ==
  /\ pc = "start"
  /\ env = RequiredSettings
  /\ assetsFolder = <<>>
  /\ generationTasks = <<>>
  /\ assetReferences = <<>>
  /\ loadFailed = <<>>
  /\ tasks1 = <<>>
  /\ preparedAssets = <<>>
  /\ maskIdx = 1
  /\ maskSt = "idle"
  /\ maskInFlight = {}
  /\ maskResult = <<>>
  /\ maskSteps = <<>>
  /\ maskedAssets = <<>>
  /\ timer = 0
  /\ sinceSettle = -1
  /\ gaps = <<>>
  /\ maskCalls = <<>>
  /\ calls = <<>>
  /\ tasks3 = <<>>
  /\ processResults = EmptyResults(0, 0)
  /\ reportsWritten = 0
  /\ LoggerConstructed("unset", "unset", "unset", {})
  /\ \E exists \in BOOLEAN, dir \in LogDirs, day \in Days,
        ms \in {0, MsPerDay - 1}, args \in SUBSET Options :
       /\ ~exists => dir = {}
       /\ cleanup = [NoCleanup EXCEPT !.pc = "start", !.exists = exists, !.dir = dir,
                                      !.time = day * MsPerDay + ms, !.args = args]

\* the top of the script: the directory is listed and the files are grouped;
\* the script ends when there is no directory or no .log file
CleanupList ==
  /\ cleanup.pc = "start"
  /\ cleanup' =
       IF ~cleanup.exists \/ cleanup.dir = {}
       THEN [cleanup EXCEPT !.pc = "exit"]
       ELSE [cleanup EXCEPT !.pc = "options", !.files = cleanup.dir,
                            !.groups = fileGroups(cleanup.dir, cleanup.time)]
  /\ UNCHANGED <<pipelineVars, loggerVars>>

CleanupAuto ==
  /\ cleanup.pc = "options"
  /\ "--auto" \in cleanup.args
  /\ cleanup' = [cleanup EXCEPT !.pc = "done",
                   !.dir = @ \ filesToDelete(cleanup.files, cleanup.time)]
  /\ UNCHANGED <<pipelineVars, loggerVars>>

CleanupRotated ==
  /\ cleanup.pc = "options"
  /\ "--auto" \notin cleanup.args
  /\ "--rotated" \in cleanup.args
  /\ cleanup' = [cleanup EXCEPT !.pc = "done", !.dir = @ \ cleanup.groups.rotated]
  /\ UNCHANGED <<pipelineVars, loggerVars>>

CleanupAll ==
  /\ cleanup.pc = "options"
  /\ "--auto" \notin cleanup.args
  /\ "--rotated" \notin cleanup.args
  /\ "--all" \in cleanup.args
  /\ cleanup' = [cleanup EXCEPT !.pc = "done", !.dir = @ \ cleanup.files]
  /\ UNCHANGED <<pipelineVars, loggerVars>>

\* no option: the usage text
CleanupHelp ==
  /\ cleanup.pc = "options"
  /\ cleanup.args = {}
  /\ cleanup' = [cleanup EXCEPT !.pc = "done"]
  /\ UNCHANGED <<pipelineVars, loggerVars>>

CleanupNext ==
  \/ CleanupList
  \/ CleanupAuto
  \/ CleanupRotated
  \/ CleanupAll
  \/ CleanupHelp

CleanupSpec == CleanupInit /\ [][CleanupNext]_vars

(***************************************************************************)
(* Vocabulary of the properties                                            *)
(***************************************************************************)
\* main() holds the final report
ReportReady == pc \in {"report", "done"}

\* the identity of the job of a unit and of a report entry
TaskKey(t) == <<t.assetName, t.category, t.region, t.ratio>>

RecKey(r) == <<r.assetName, r.productCategory, r.region, r.aspectRatio>>

\* positions of job id in the two lists of the report
SuccessOf(id) ==
  {k \in 1..Len(processResults.success) :
     RecKey(processResults.success[k]) = TaskKey(tasks1[id])}

FailuresOf(id) ==
  {k \in 1..Len(processResults.failures) :
     RecKey(processResults.failures[k]) = TaskKey(tasks1[id])}

RECURSIVE LoadFailureCount(_, _)
LoadFailureCount(refs, failed) ==
  IF failed = <<>> THEN 0
  ELSE Len(Combos(refs[Head(failed)])) + LoadFailureCount(refs, Tail(failed))

\* jobs that entered expansion: the units emitted plus the region x ratio
\* combinations of the assets that failed to load
NumEntered == Len(tasks1) + LoadFailureCount(assetReferences, loadFailed)

\* the unit of job id in phase 3, 0 when it never got there
FinalUnitOf(id) ==
  IF \E k \in 1..Len(tasks3) : tasks3[k].id = id
  THEN CHOOSE k \in 1..Len(tasks3) : tasks3[k].id = id
  ELSE 0

\* the error message of the collaborator call that failed for job id
StageError(id) ==
  IF tasks1[id].st = "rejected" THEN tasks1[id].err
  ELSE IF maskResult[id] = "failed" THEN ErrorMessage("createMask")
  ELSE IF FinalUnitOf(id) # 0 /\ tasks3[FinalUnitOf(id)].error # "none"
       THEN tasks3[FinalUnitOf(id)].error
  ELSE "none"

FailedJobs == {id \in 1..Len(tasks1) : StageError(id) # "none"}

\* the operations of the stages after upload/expand, and after the mask
LaterThanExpand ==
  {"createMask", "fillImage", "getPresignedPutUrl", "addTextOverlay", "getPresignedGetUrl"}

LaterThanMask ==
  {"fillImage", "getPresignedPutUrl", "addTextOverlay", "getPresignedGetUrl"}

Ids(seq) == {seq[k].id : k \in 1..Len(seq)}

Phase1Over == pc \in {"phase2", "phase3", "report", "done"}

Phase2Over == pc \in {"phase3", "report", "done"}

(***************************************************************************)
(* C1: every job that entered expansion (units emitted plus load-time      *)
(* failures) ends with exactly one terminal record: in the final report    *)
(* len(success) + len(failures) is the number of jobs that entered         *)
(* expansion and every job is in exactly one list, exactly once.           *)
(***************************************************************************)
C1_OneTerminalRecordPerJob ==
  ReportReady =>
    /\ Len(processResults.success) + Len(processResults.failures) = NumEntered
    /\ \A id \in 1..Len(tasks1) :
         Cardinality(SuccessOf(id)) + Cardinality(FailuresOf(id)) = 1

(***************************************************************************)
(* C2: when a collaborator call fails for job X at any stage and for no    *)
(* other job, the final report has X in `failures` with that stage's error *)
(* message and every sibling job in `success`.                             *)
(***************************************************************************)
C2_SingleFailureReported ==
  ReportReady =>
    \A x \in 1..Len(tasks1) :
      FailedJobs = {x} =>
        /\ \E k \in FailuresOf(x) : processResults.failures[k].error = StageError(x)
        /\ \A y \in (1..Len(tasks1)) \ {x} : SuccessOf(y) # {}

(***************************************************************************)
(* C3: stage k+1 receives exactly the jobs that succeeded at stage k.  No  *)
(* later-stage call is ever made for a job whose upload/expand failed, no  *)
(* fill/overlay call for a job whose createMask failed, and every job that *)
(* succeeded at a stage is handed to the next one.                         *)
(***************************************************************************)
C3_StageInputsAreSurvivors ==
  /\ \A id \in 1..Len(tasks1) :
       /\ tasks1[id].st = "rejected" => calls[id] \cap LaterThanExpand = {}
       /\ maskResult[id] = "failed" => calls[id] \cap LaterThanMask = {}
  /\ Phase1Over =>
       Ids(preparedAssets) = {id \in 1..Len(tasks1) : tasks1[id].st = "fulfilled"}
  /\ Phase2Over =>
       /\ Ids(maskedAssets) = {id \in Ids(preparedAssets) : maskResult[id] # "failed"}
       /\ Ids(tasks3) = Ids(maskedAssets)
       /\ Len(tasks3) = Len(maskedAssets)

\* the final stage has started without the job whose createMask failed and
\* with a sibling that reached the overlay
C3_Witness ==
  /\ pc = "phase3"
  /\ \E a, b \in 1..Len(tasks1) :
       /\ maskResult[a] = "failed"
       /\ "addTextOverlay" \in calls[b]

(***************************************************************************)
(* C4: parallel stage isolation.  In both parallel stages the outcome      *)
(* recorded for a job (success or failure, and the success payload) is the *)
(* one its own unit settled with, whatever the other units did and in      *)
(* whatever order the units completed.                                     *)
(***************************************************************************)
\* what the unit of job id settled with in phase 1, and what was recorded
Own1(id) ==
  [ok |-> tasks1[id].st = "fulfilled", url |-> tasks1[id].imageUrl]

Recorded1(id) ==
  IF id \in Ids(preparedAssets)
  THEN [ok |-> TRUE, url |-> PreparedOf(preparedAssets, id).imageUrl]
  ELSE [ok |-> FALSE, url |-> NoUrl]

\* the same for unit k of phase 3 and the report
Own3(k) ==
  [ok |-> tasks3[k].success, url |-> tasks3[k].presignedGetUrl,
   error |-> tasks3[k].error]

Recorded3(id) ==
  IF SuccessOf(id) # {}
  THEN [ok |-> TRUE,
        url |-> processResults.success[CHOOSE k \in SuccessOf(id) : TRUE].presignedGetUrl,
        error |-> "none"]
  ELSE IF FailuresOf(id) # {}
  THEN [ok |-> FALSE, url |-> NoUrl,
        error |-> processResults.failures[CHOOSE k \in FailuresOf(id) : TRUE].error]
  ELSE [ok |-> FALSE, url |-> NoUrl, error |-> "not recorded"]

C4_ParallelStageIsolation ==
  /\ Phase1Over => \A id \in 1..Len(tasks1) : Recorded1(id) = Own1(id)
  /\ ReportReady => \A k \in 1..Len(tasks3) : Recorded3(tasks3[k].id) = Own3(k)

\* one unit of phase 1 failed and a sibling of the same stage is in `success`
C4_Witness ==
  /\ ReportReady
  /\ \E a, b \in 1..Len(tasks1) :
       /\ tasks1[a].st = "rejected"
       /\ "expandImage" \in calls[b]
       /\ SuccessOf(b) # {}

(***************************************************************************)
(* C5: the sequential mask stage never short-circuits.  When the stage     *)
(* returns, createMask has been called and has settled for every prepared  *)
(* asset that needs a mask, also for those after a failed one, and every   *)
(* asset whose mask did not fail has been forwarded.                       *)
(***************************************************************************)
C5_MaskStageNeverShortCircuits ==
  Phase2Over =>
    \A k \in 1..Len(preparedAssets) :
      LET a == preparedAssets[k] IN
      /\ a.needsMask =>
           /\ \E c \in 1..Len(maskCalls) : maskCalls[c] = a.id
           /\ maskResult[a.id] # "none"
      /\ maskResult[a.id] # "failed" => a.id \in Ids(maskedAssets)

\* a unit failed and the unit after it ran and was forwarded
C5_Witness ==
  /\ Phase2Over
  /\ \E k, l \in 1..Len(preparedAssets) :
       /\ k < l
       /\ maskResult[preparedAssets[k].id] = "failed"
       /\ maskResult[preparedAssets[l].id] = "ok"
       /\ preparedAssets[l].id \in Ids(maskedAssets)

(***************************************************************************)
(* C6: createMask calls are made only inside the sequential stage, one at  *)
(* a time and in the stage's input order: never two calls in flight, and   *)
(* the call for a later input starts only after all earlier calls settled. *)
(***************************************************************************)
\* the ids of the prepared assets that need a mask, in input order
MaskInputOrder ==
  LET need == SelectSeq(preparedAssets, LAMBDA a : a.needsMask)
  IN [k \in 1..Len(need) |-> need[k].id]

C6_MaskCallsSequentialInOrder ==
  /\ Cardinality(maskInFlight) <= 1
  /\ maskInFlight # {} => pc = "phase2"
  /\ \A id \in 1..Len(tasks1) : "createMask" \in calls[id] => Phase1Over
  /\ Len(maskCalls) <= Len(MaskInputOrder)
  /\ \A c \in 1..Len(maskCalls) : maskCalls[c] = MaskInputOrder[c]
  /\ \A c \in 1..(Len(maskCalls) - 1) : maskResult[maskCalls[c]] # "none"

\* the second createMask call of the stage is in flight
C6_Witness ==
  /\ Len(maskCalls) = 2
  /\ maskInFlight = {maskCalls[2]}

(***************************************************************************)
(* C7: between the completion of a createMask call and the start of the    *)
(* next one at least the minimum delay (200 ms) passes, whether the        *)
(* earlier call succeeded or failed.                                       *)
(***************************************************************************)
C7_MinDelayBetweenMaskCalls ==
  \A g \in 1..Len(gaps) : gaps[g] >= MaskDelayMs

(***************************************************************************)
(* C8: a parallel stage returns only after every one of its units has      *)
(* settled.  No createMask call and no unit of the final stage exists, and *)
(* no result is aggregated, while a unit of the stage before is in flight; *)
(* a unit that failed did so through its own collaborator call.            *)
(***************************************************************************)
InFlight1 == {id \in 1..Len(tasks1) : tasks1[id].st \in {"uploading", "expanding"}}

InFlight3 == {k \in 1..Len(tasks3) : tasks3[k].st # "fulfilled"}

C8_ParallelStageWaitsForAll ==
  /\ (Phase1Over \/ maskCalls # <<>> \/ maskedAssets # <<>> \/ tasks3 # <<>>)
       => InFlight1 = {}
  /\ ReportReady => InFlight3 = {}
  /\ (processResults.summary.processed > 0 \/ reportsWritten > 0) => InFlight3 = {}
  /\ \A id \in 1..Len(tasks1) :
       tasks1[id].st = "rejected" =>
         tasks1[id].err \in {ErrorMessage("uploadImage"), ErrorMessage("expandImage")}

\* the mask stage has been entered after a stage in which one unit failed
\* and a sibling went through both of its calls
C8_Witness ==
  /\ pc = "phase2"
  /\ \E a, b \in 1..Len(tasks1) :
       /\ tasks1[a].st = "rejected"
       /\ tasks1[b].st = "fulfilled"
       /\ "expandImage" \in calls[b]

(***************************************************************************)
(* C9: each settled result is attributed to its own job, whatever the      *)
(* completion order: the prepared-image URL, the mask URL and the final    *)
(* record of a job are the ones produced by that job's own calls.          *)
(***************************************************************************)
C9_ResultsAttributedToOwnJob ==
  /\ \A k \in 1..Len(preparedAssets) :
       LET e == preparedAssets[k] IN
       /\ TaskKey(e) = TaskKey(tasks1[e.id])
       /\ e.imageUrl = IF e.isGenerated THEN <<"download", e.asset>>
                       ELSE <<"expanded", e.id>>
  /\ \A k \in 1..Len(maskedAssets) :
       LET m == maskedAssets[k] IN
       /\ m.maskUrl = IF m.needsMask THEN <<"mask", m.id>> ELSE NoUrl
       /\ m.imageUrl = PreparedOf(preparedAssets, m.id).imageUrl
  /\ \A k \in 1..Len(tasks3) :
       LET t == tasks3[k] IN
       /\ t.imageUrl \in {<<"download", t.asset>>, <<"expanded", t.id>>, <<"filled", t.id>>}
       /\ t.presignedGetUrl \in {NoUrl, <<"final", t.id>>}
  /\ ReportReady =>
       \A id \in 1..Len(tasks1) :
         /\ \A k \in SuccessOf(id) :
              processResults.success[k].presignedGetUrl = <<"final", id>>
         /\ \A k \in FailuresOf(id) :
              \E c \in calls[id] : processResults.failures[k].error = ErrorMessage(c)

\* the report holds the final records of two different jobs
C9_Witness ==
  /\ ReportReady
  /\ \E a, b \in 1..Len(tasks1) :
       /\ a # b
       /\ SuccessOf(a) # {}
       /\ SuccessOf(b) # {}

(***************************************************************************)
(* C10: in every report, summary.processed = len(success) + len(failures), *)
(* summary.succeeded = len(success) and summary.failed = len(failures).    *)
(***************************************************************************)
C10_SummaryMatchesLists ==
  ReportReady =>
    /\ processResults.summary.processed
         = Len(processResults.success) + Len(processResults.failures)
    /\ processResults.summary.succeeded = Len(processResults.success)
    /\ processResults.summary.failed = Len(processResults.failures)

\* a written report with a success and a failure
C10_Witness ==
  /\ pc = "done"
  /\ reportsWritten = 1
  /\ processResults.success # <<>>
  /\ processResults.failures # <<>>

(***************************************************************************)
(* C11: summary.total is the expected-output count the configuration       *)
(* implies for the assets of the run (asset x configured region x          *)
(* configured ratio, a ratio-restricted asset counted for its ratio only), *)
(* whatever collaborator calls failed during the run.                      *)
(***************************************************************************)
ConfiguredRegions == UNION {Range(TargetRegions(c)) : c \in ProductCategories}

ExpectedOutputs ==
  {o \in (1..Len(assetReferences)) \X ConfiguredRegions \X Range(AspectRatios) :
     LET ref == assetReferences[o[1]] IN
     /\ o[2] \in Range(TargetRegions(ref.category))
     /\ ref.isGenerated => ref.aspectRatio = o[3]}

C11_TotalIsExpectedOutputCount ==
  ReportReady => processResults.summary.total = Cardinality(ExpectedOutputs)

(***************************************************************************)
(* C12: an asset restricted to one ratio (a generated asset) yields jobs   *)
(* for that ratio only, exactly one per configured region of its category. *)
(* For every other ratio it has no job, no load failure and no entry in    *)
(* the report.                                                             *)
(***************************************************************************)
Expanded == pc \in {"phase1", "phase2", "phase3", "report", "done"}

UnitsOfAsset(a) == {id \in 1..Len(tasks1) : tasks1[id].asset = a}

ReportEntries == Range(processResults.success) \cup Range(processResults.failures)

C12_RatioRestrictedJobs ==
  Expanded =>
    \A a \in 1..Len(assetReferences) :
      LET ref == assetReferences[a] IN
      ref.isGenerated =>
        /\ \A id \in UnitsOfAsset(a) :
             /\ tasks1[id].ratio = ref.aspectRatio
             /\ tasks1[id].region \in Range(TargetRegions(ref.category))
        /\ \A r \in Range(TargetRegions(ref.category)) :
             Cardinality({id \in UnitsOfAsset(a) : tasks1[id].region = r}) = 1
        /\ a \notin Range(loadFailed)
        /\ \A e \in ReportEntries :
             e.assetName = ref.filename => e.aspectRatio = ref.aspectRatio

C12_Witness ==
  /\ pc = "done"
  /\ \E a \in 1..Len(assetReferences) :
       /\ assetReferences[a].isGenerated
       /\ assetReferences[a].category = "fragrances"
       /\ Cardinality(UnitsOfAsset(a)) = 2
       /\ \E e \in ReportEntries : e.assetName = assetReferences[a].filename

(***************************************************************************)
(* C13: job expansion walks the asset references in input order, the       *)
(* regions of the asset's category in configured order and the ratios in   *)
(* configured order, and emits one job for each combination unless the     *)
(* asset's ratio restriction differs from the ratio.  The job sequence and *)
(* the order in which jobs reach the sequential stage follow asset order,  *)
(* then region order, then ratio order.                                    *)
(***************************************************************************)
RegionIndex(c, region) ==
  CHOOSE k \in 1..Len(TargetRegions(c)) : TargetRegions(c)[k] = region

RatioIndex(ratio) == CHOOSE k \in 1..Len(AspectRatios) : AspectRatios[k] = ratio

\* unit t comes before unit u in asset, region, ratio order
JobBefore(t, u) ==
  \/ t.asset < u.asset
  \/ /\ t.asset = u.asset
     /\ RegionIndex(t.category, t.region) < RegionIndex(u.category, u.region)
  \/ /\ t.asset = u.asset
     /\ t.region = u.region
     /\ RatioIndex(t.ratio) < RatioIndex(u.ratio)

UnitTriples == {<<tasks1[id].asset, tasks1[id].region, tasks1[id].ratio>> : id \in 1..Len(tasks1)}

Increasing(ids) == \A i, j \in 1..Len(ids) : i < j => ids[i] < ids[j]

\* the units are in expansion order and keep it on the way to the mask stage
ExpansionOrderKept ==
  /\ \A i, j \in 1..Len(tasks1) : i < j => JobBefore(tasks1[i], tasks1[j])
  /\ \A id \in 1..Len(tasks1) : tasks1[id].id = id
  /\ Increasing([k \in 1..Len(preparedAssets) |-> preparedAssets[k].id])
  /\ Increasing(maskCalls)
  /\ Increasing([k \in 1..Len(maskedAssets) |-> maskedAssets[k].id])

LoadedOutputs == {o \in ExpectedOutputs : assetReferences[o[1]].file \notin {"missing", "empty"}}

Unconfigured ==
  {a \in 1..Len(assetReferences) : assetReferences[a].category \notin ProductCategories}

FailureEntriesOf(a) ==
  {e \in Range(processResults.failures) : e.assetName = assetReferences[a].filename}

C14_UnconfiguredCategoryReported ==
  /\ Expanded => \A a \in Unconfigured : UnitsOfAsset(a) = {}
  /\ ReportReady => \A a \in Unconfigured : FailureEntriesOf(a) # {}

(***************************************************************************)
(* C15: a local asset whose file is missing or empty gets a failure record *)
(* in the report, no collaborator call is made for it and the run goes on  *)
(* to its report.                                                          *)
(***************************************************************************)
LoadThrew ==
  {a \in 1..Len(assetReferences) :
     /\ assetReferences[a].category \in ProductCategories
     /\ assetReferences[a].file \in {"missing", "empty"}}

C15_LoadFailureReported ==
  /\ Expanded => \A a \in LoadThrew : UnitsOfAsset(a) = {}
  /\ LoadThrew # {} => pc # "fatal"
  /\ ReportReady => \A a \in LoadThrew : FailureEntriesOf(a) # {}

(***************************************************************************)
(* C16: fast path.  For a job of a generated asset no upload, expand,      *)
(* createMask or fillImage call is ever made.  The job still goes through  *)
(* the pipeline: it is handed on by the first two stages untouched, only   *)
(* the publish and text-overlay calls of the final stage run for it, and   *)
(* its outcome is aggregated like that of a local job.                     *)
(***************************************************************************)
LocalOnlyCalls == {"uploadImage", "expandImage", "createMask", "fillImage"}

GeneratedJobs == {id \in 1..Len(tasks1) : tasks1[id].isGenerated}

C16_GeneratedFastPath ==
  \A id \in GeneratedJobs :
    /\ calls[id] \cap LocalOnlyCalls = {}
    /\ Phase1Over => id \in Ids(preparedAssets)
    /\ Phase2Over =>
         /\ id \in Ids(maskedAssets)
         /\ FinalUnitOf(id) # 0
         /\ tasks3[FinalUnitOf(id)].st # "fill"
    /\ ReportReady =>
         LET t == tasks3[FinalUnitOf(id)] IN
         /\ t.success => SuccessOf(id) # {} /\ FailuresOf(id) = {}
         /\ ~t.success => FailuresOf(id) # {} /\ SuccessOf(id) = {}
         /\ ~t.success =>
              \E k \in FailuresOf(id) : processResults.failures[k].error = t.error

C16_Witness ==
  /\ pc = "done"
  /\ \E id, other \in GeneratedJobs :
       /\ calls[id] = {"getPresignedPutUrl", "addTextOverlay", "getPresignedGetUrl"}
       /\ SuccessOf(id) # {}
       /\ FailuresOf(other) # {}

(***************************************************************************)
(* C17: at every instant each job is active in at most one stage           *)
(* invocation: its upload/expand unit, its createMask call and its         *)
(* fill/overlay unit are never in flight at the same time, and no stage is *)
(* invoked twice for it.                                                   *)
(***************************************************************************)
ActiveStages(id) ==
  {stage \in {"uploadExpand", "mask", "fillOverlay"} :
     \/ stage = "uploadExpand" /\ id \in InFlight1
     \/ stage = "mask" /\ id \in maskInFlight
     \/ stage = "fillOverlay" /\
          \E k \in InFlight3 : tasks3[k].id = id}

C17_OneStageInvocationPerJob ==
  \A id \in 1..Len(tasks1) :
    /\ Cardinality(ActiveStages(id)) <= 1
    /\ Cardinality({k \in 1..Len(maskCalls) : maskCalls[k] = id}) <= 1
    /\ Cardinality({k \in 1..Len(tasks3) : tasks3[k].id = id}) <= 1

C17_Witness ==
  \E id \in 1..Len(tasks1) :
    /\ ActiveStages(id) = {"fillOverlay"}
    /\ {"uploadImage", "expandImage", "createMask"} \subseteq calls[id]
    /\ \E other \in 1..Len(tasks1) : other # id /\ ActiveStages(other) = {"fillOverlay"}

(***************************************************************************)
(* C18: with the required configuration present, a run that has ended has  *)
(* completed and has emitted exactly one report, also when every asset     *)
(* generation or every stage call failed.                                  *)
(***************************************************************************)
ConfigurationPresent == RequiredSettings \subseteq env

RunEnded == pc \in {"done", "fatal", "envExit"}

C18_EndedRunEmittedOneReport ==
  ConfigurationPresent /\ RunEnded => pc = "done" /\ reportsWritten = 1

(***************************************************************************)
(* C19: the report is written once and only at the end of the run: never   *)
(* while a unit of any stage is in flight, only after the summary is       *)
(* final, never a second time, and every completed run has written it.     *)
(***************************************************************************)
SummaryFinal ==
  /\ processResults.summary.processed = Len(tasks3)
  /\ Len(processResults.success) + Len(processResults.failures) = Len(tasks3)
  /\ processResults.summary.succeeded = Len(processResults.success)
  /\ processResults.summary.failed = Len(processResults.failures)

C20_NonZeroExitOnlyForMissingConfiguration ==
  ExitStatus # 0 => ~ConfigurationPresent

(***************************************************************************)
(* C21: when any of the eight required settings is absent the process      *)
(* aborts with a non-zero status before any asset is discovered, any job   *)
(* is expanded, any collaborator is called or any report is written.       *)
(***************************************************************************)
EightSettings ==
  {"ADOBE_CLIENT_ID", "ADOBE_CLIENT_SECRET", "ADOBE_SCOPES", "AWS_REGION",
   "S3_BUCKET_NAME", "AWS_ACCESS_KEY_ID", "AWS_SECRET_ACCESS_KEY", "S3_KEY_PREFIX"}

NothingDone ==
  /\ assetReferences = <<>>
  /\ tasks1 = <<>>
  /\ calls = <<>>
  /\ maskCalls = <<>>
  /\ tasks3 = <<>>
  /\ reportsWritten = 0

C21_MissingSettingAborts ==
  (\E v \in EightSettings : v \notin env) =>
    /\ pc \in {"start", "envExit"}
    /\ pc = "envExit" => ExitStatus # 0
    /\ NothingDone

C21_Witness ==
  /\ pc = "envExit"
  /\ env = EightSettings \ {"S3_KEY_PREFIX"}

(***************************************************************************)
(* C22: a configured category without local asset for which generation     *)
(* produced nothing yields no job and no error: no unit, no entry of the   *)
(* report names it, the exit status stays 0 and the run goes on to its     *)
(* report.                                                                 *)
(***************************************************************************)
Discovered == pc \notin {"start", "envExit", "getAssets"}

CategoriesWithoutAsset ==
  {c \in ProductCategories :
     \A a \in 1..Len(assetReferences) : assetReferences[a].category # c}

C22_CategoryWithoutAssetIsSilent ==
  Discovered =>
    \A c \in CategoriesWithoutAsset :
      /\ \A id \in 1..Len(tasks1) : tasks1[id].category # c
      /\ \A e \in ReportEntries : e.productCategory # c
      /\ ExitStatus = 0
      /\ pc # "fatal"

(***************************************************************************)
(* C23: the shared result collections (success list, failures list,        *)
(* summary counters) change only at the join of the final stage: every     *)
(* step that changes them is taken with no unit of the final stage in      *)
(* flight, and while a unit is in flight they are still empty.             *)
(***************************************************************************)
C23_ResultsMutatedOnlyAtJoin ==
  [][processResults' # processResults =>
       /\ pc = "phase3"
       /\ pc' = "report"
       /\ InFlight3 = {}
       /\ InFlight1 = {}
       /\ maskInFlight = {}
       /\ tasks3' = tasks3]_vars

C23_Witness ==
  /\ pc = "report"
  /\ Len(tasks3) = 3
  /\ Len(processResults.success) >= 1
  /\ Len(processResults.failures) >= 1
  /\ \E j, k \in 1..3 : j < k /\ tasks3[k].st = "fulfilled" /\ tasks3[k].success

(***************************************************************************)
(* C24: the parallel stage runner is unbounded by default (all N units are *)
(* started before any is awaited) and accepts an optional concurrency cap: *)
(* when a cap c is supplied, at most c units of the stage are in flight at *)
(* any instant.  The stage functions take no cap argument, so a run with a *)
(* cap supplied is the same run as without one.                            *)
(***************************************************************************)
SuppliedCaps == {1, 2}

C24_SuppliedCapBoundsInFlight ==
  \A c \in SuppliedCaps :
    /\ Cardinality(InFlight1) <= c
    /\ Cardinality(InFlight3) <= c

\* amended: both parallel stages start every unit before the join is awaited
LocalJobs == {id \in 1..Len(tasks1) : ~tasks1[id].isGenerated}

C24_AllUnitsStartedAtOnce ==
  [][/\ (pc = "expand" /\ pc' = "phase1") =>
          /\ InFlight1' = LocalJobs'
          /\ \A id \in LocalJobs' : "uploadImage" \in calls'[id]
     /\ (pc = "phase2" /\ pc' = "phase3") =>
          /\ Len(tasks3') = Len(maskedAssets)
          /\ InFlight3' = 1..Len(maskedAssets)
          /\ \A k \in 1..Len(tasks3') :
               CallAt(tasks3'[k].st) \in calls'[tasks3'[k].id]]_vars

C24_Witness ==
  /\ pc = "phase3"
  /\ Cardinality(InFlight3) = 3
  /\ \E k \in InFlight3 : tasks3[k].st = "puturl"

(***************************************************************************)
(* C25: each job follows the state machine Expanded -> Stage1Done ->       *)
(* Stage2Done -> Stage3Done with Failed absorbing.  The collaborator       *)
(* operations of a job start one at a time in the order upload, expand,    *)
(* createMask, fillImage, (publish URL,) addTextOverlay, each at most once *)
(* and only after the one before succeeded; a job that failed or that has  *)
(* been recorded makes no further transition.                              *)
(***************************************************************************)
LocalOrder ==
  <<"uploadImage", "expandImage", "createMask", "fillImage",
    "getPresignedPutUrl", "addTextOverlay", "getPresignedGetUrl">>

GeneratedOrder == <<"getPresignedPutUrl", "addTextOverlay", "getPresignedGetUrl">>

OrderOf(id) == IF tasks1[id].isGenerated THEN GeneratedOrder ELSE LocalOrder

\* the operation of job id that is in flight, "none" when there is none
InFlightOp(id) ==
  IF tasks1[id].st = "uploading" THEN "uploadImage"
  ELSE IF tasks1[id].st = "expanding" THEN "expandImage"
  ELSE IF id \in maskInFlight THEN "createMask"
  ELSE IF FinalUnitOf(id) # 0 /\ tasks3[FinalUnitOf(id)].st # "fulfilled"
       THEN CallAt(tasks3[FinalUnitOf(id)].st)
  ELSE "none"

\* what the pipeline holds of job id
JobView(id) ==
  <<tasks1[id], maskResult[id], id \in maskInFlight, calls[id],
    IF FinalUnitOf(id) = 0 THEN "none" ELSE tasks3[FinalUnitOf(id)]>>

C25_JobStateMachine ==
  [][/\ \A id \in 1..Len(tasks1') :
          \E n \in 0..Len(OrderOf(id)') :
            calls'[id] = {OrderOf(id)'[k] : k \in 1..n}
     /\ \A id \in 1..Len(tasks1) :
          /\ StageError(id) # "none" => JobView(id)' = JobView(id)
          /\ ReportReady => JobView(id)' = JobView(id)
          /\ calls'[id] # calls[id] =>
               /\ calls[id] \subseteq calls'[id]
               /\ Cardinality(calls'[id] \ calls[id]) = 1
               /\ InFlightOp(id)' \in calls'[id] \ calls[id]
               /\ StageError(id)' = "none"
          /\ (InFlightOp(id)' # InFlightOp(id) /\ InFlightOp(id)' # "none") =>
               InFlightOp(id)' \notin calls[id]]_vars

C25_Witness ==
  /\ pc = "done"
  /\ \E id \in 1..Len(tasks1) : calls[id] = Range(LocalOrder) /\ SuccessOf(id) # {}
  /\ \E id \in 1..Len(tasks1) : calls[id] = {"uploadImage", "expandImage", "createMask"}

(***************************************************************************)
(* C26: every entry of the report's `failures` list identifies its job     *)
(* (asset name, product category, region, aspect ratio) and carries the    *)
(* name of the stage where it failed, the error message and a timestamp;   *)
(* no entry is an error message alone.                                     *)
(***************************************************************************)
JobIdentityFields == {"assetName", "productCategory", "region", "aspectRatio"}

C26_FailureRecordNamesStage ==
  \A e \in Range(processResults.failures) :
    JobIdentityFields \cup {"stage", "error", "timestamp"} \subseteq DOMAIN e

\* amended: identity, error message and timestamp, without a stage name
C26_FailureRecordFields ==
  \A e \in Range(processResults.failures) :
    /\ DOMAIN e = JobIdentityFields \cup {"error", "timestamp"}
    /\ \E id \in 1..Len(tasks1) :
         /\ RecKey(e) = TaskKey(tasks1[id])
         /\ e.error = StageError(id)
         /\ e.error # "none"

C26_Witness ==
  /\ pc = "done"
  /\ Len(processResults.failures) >= 2
  /\ \E e, f \in Range(processResults.failures) : e.error # f.error

(***************************************************************************)
(* C27: a generation task is issued for exactly each (category, ratio)     *)
(* pair of a configured category without local asset and a configured      *)
(* ratio.  No generated asset reference is added for a category that has a *)
(* local asset, and the asset of every task that succeeded is used,        *)
(* whatever the other tasks did.                                           *)
(***************************************************************************)
CategoriesWithoutLocal ==
  {c \in ProductCategories :
     \A n \in 1..Len(assetsFolder) : assetsFolder[n].category # c}

GeneratedRefOf(c, ratio) ==
  {a \in 1..Len(assetReferences) :
     /\ assetReferences[a].isGenerated
     /\ assetReferences[a].category = c
     /\ assetReferences[a].aspectRatio = ratio}

StepCalls ==
  <<[step |-> "upload", call |-> "uploadImage"],
    [step |-> "expand", call |-> "expandImage"],
    [step |-> "mask", call |-> "createMask"],
    [step |-> "fill", call |-> "fillImage"],
    [step |-> "text_overlay", call |-> "addTextOverlay"]>>

\* the steps whose collaborator call was made for job id, in pipeline order
StepsPerformed(id) ==
  LET made == SelectSeq(StepCalls, LAMBDA sc : sc.call \in calls[id])
  IN [k \in 1..Len(made) |-> made[k].step]

C28_ProcessingStepsArePerformed ==
  ReportReady =>
    \A id \in 1..Len(tasks1) :
      \A k \in SuccessOf(id) :
        LET e == processResults.success[k] IN
        /\ e.processingSteps = StepsPerformed(id)
        /\ StageError(id) = "none"
        /\ e.processingSteps =
             IF tasks1[id].isGenerated THEN <<"text_overlay">>
             ELSE <<"upload", "expand", "mask", "fill", "text_overlay">>

C28_Witness ==
  /\ pc = "done"
  /\ \E e, f \in Range(processResults.success) :
       Len(e.processingSteps) = 5 /\ Len(f.processingSteps) = 5 /\ e # f

(***************************************************************************)
(* C29: a message logged at level L is emitted, on the console and to the  *)
(* log file, if and only if L is at or above the severity of the           *)
(* configured LOG_LEVEL in the order error > warn > info > debug, the      *)
(* level being info when LOG_LEVEL is not set; an error message is emitted *)
(* under each of the four levels.                                          *)
(***************************************************************************)
\* the levels at or above the severity of a configured level
AtOrAbove(configured) ==
  IF configured = "error" THEN {"error"}
  ELSE IF configured = "warn" THEN {"error", "warn"}
  ELSE IF configured = "info" THEN {"error", "warn", "info"}
  ELSE {"error", "warn", "info", "debug"}

ConfiguredLevel == IF logEnv.LOG_LEVEL = "unset" THEN "info" ELSE logEnv.LOG_LEVEL

LinesOf(dir, name) == IF Exists(dir, name) THEN Range(FileOf(dir, name).lines) ELSE {}

C29_LevelFiltering ==
  [][(lastCall'.n # lastCall.n /\ ConfiguredLevel \in LevelNames) =>
       LET message == [level |-> lastCall'.level, n |-> lastCall'.n]
           due == lastCall'.level \in AtOrAbove(ConfiguredLevel) IN
       /\ "error" \in AtOrAbove(ConfiguredLevel)
       /\ due => /\ console' # console
                 /\ console'[Len(console) + 1] = message
                 /\ lastCall'.faults # <<>>
                 /\ lastCall'.faults[Len(lastCall'.faults)] = "none" =>
                      message \in LinesOf(logDir', CurrentLogFile)
       /\ ~due => /\ console' = console
                  /\ logDir' = logDir
                  /\ lastCall'.faults = <<>>]_vars

C29_Witness ==
  /\ logEnv.LOG_LEVEL = "unset"
  /\ lastCall.level = "debug"
  /\ lastCall.n = 3
  /\ Len(console) = 2
  /\ \E k \in 1..2 : console[k].level = "info"
  /\ \E k \in 1..2 : console[k].level = "error"

(***************************************************************************)
(* C30: an error message is written to the main log file and to the error  *)
(* log file; a warn, info or debug message is written to the main log file *)
(* only and never changes the error log file.                              *)
(***************************************************************************)
SameFile(dir1, dir2, name) ==
  /\ Exists(dir1, name) <=> Exists(dir2, name)
  /\ Exists(dir1, name) => FileOf(dir1, name) = FileOf(dir2, name)

C30_ErrorFileOnlyForErrors ==
  [][lastCall'.n # lastCall.n =>
       LET message == [level |-> lastCall'.level, n |-> lastCall'.n] IN
       /\ (lastCall'.level = "error" /\ lastCall'.faults = <<"none", "none">>) =>
            /\ message \in LinesOf(logDir', CurrentErrorFile)
            /\ message \in LinesOf(logDir', CurrentLogFile)
       /\ lastCall'.level # "error" =>
            /\ SameFile(logDir, logDir', CurrentErrorFile)
            /\ lastCall'.faults = <<"none">> =>
                 message \in LinesOf(logDir', CurrentLogFile)]_vars

(***************************************************************************)
(* C31: after any sequence of log writes and rotations the log directory   *)
(* holds at most maxFiles `.log` files.                                    *)
(***************************************************************************)
C31_AtMostMaxFilesLogFiles == Cardinality(logDir) <= maxFiles

(***************************************************************************)
(* C32: a message written to a log file whose size has reached the maximum *)
(* goes to a fresh file under the original name, the full file having been *)
(* renamed to a rotated file that holds the lines written before; a        *)
(* message is appended to an existing file only when its size is below the *)
(* maximum.                                                                *)
(***************************************************************************)
ContentOf(dir, name) == IF Exists(dir, name) THEN FileOf(dir, name).lines ELSE <<>>

\* the file a call writes first
FirstFileOf(level) == IF level = "error" THEN CurrentErrorFile ELSE CurrentLogFile

\* the file of the name has reached the size
Full(dir, name, size) == Exists(dir, name) /\ Len(ContentOf(dir, name)) >= size

ActiveFiles == {CurrentLogFile, CurrentErrorFile}

C37_CleanupSparesActiveFiles ==
  [][\A name \in ActiveFiles :
       (Exists(logDir, name) /\ ~Full(logDir, name, maxFileSize)) =>
         Exists(logDir', name)]_vars

(***************************************************************************)
(* C38: a failure while a log message is written (the rotation, the        *)
(* cleanup or the append throws) never reaches the caller of error, warn,  *)
(* info or debug: the call returns, the failure goes to the console, an    *)
(* error call still writes to the main log after its error log write       *)
(* failed, and no state of the pipeline changes.                           *)
(***************************************************************************)
FallbackLines(out) == Cardinality({k \in 1..Len(out) : out[k].level = "fallback"})

FailedWrites(faults) == Cardinality({k \in 1..Len(faults) : faults[k] # "none"})

C38_WriteFailureNeverPropagates ==
  [][lastCall'.n # lastCall.n =>
       LET message == [level |-> lastCall'.level, n |-> lastCall'.n] IN
       /\ ~lastCall'.threw
       /\ FallbackLines(console') = FallbackLines(console) + FailedWrites(lastCall'.faults)
       /\ (lastCall'.level = "error" /\ lastCall'.faults # <<>>
             /\ lastCall'.faults[2] = "none") =>
            message \in LinesOf(logDir', CurrentLogFile)
       /\ UNCHANGED pipelineVars]_vars

C38_Witness ==
  /\ lastCall.level = "error"
  /\ lastCall.faults = <<"cleanup", "append">>
  /\ ~lastCall.threw
  /\ FallbackLines(console) = 3
  /\ \E f \in logDir : f.name[1] = "error" /\ f.name[2] > 0

(***************************************************************************)
(* C33: after a run of the log cleanup utility with --rotated every daily  *)
(* log file (app-<day>.log, error-<day>.log of any day) that was in the    *)
(* directory is still there, and every rotated (timestamp-suffixed) file   *)
(* is deleted.                                                             *)
(***************************************************************************)
IsRotated(name) == name.rotatedOn # NotRotated

IsDaily(name) == name.rotatedOn = NotRotated /\ name.day \in Days

RanWith(option) ==
  /\ cleanup.pc = "done"
  /\ option \in cleanup.args
  /\ option = "--rotated" => "--auto" \notin cleanup.args

C33_RotatedDeletesOnlyRotated ==
  RanWith("--rotated") =>
    \A f \in cleanup.files :
      /\ IsDaily(f) => f \in cleanup.dir
      /\ IsRotated(f) => f \notin cleanup.dir

(***************************************************************************)
(* C34: a run of the log cleanup utility with --auto deletes exactly the   *)
(* log files whose name carries no date or a date more than 2 days before  *)
(* today; a file dated today or within the last 2 days is never deleted.   *)
(***************************************************************************)
CarriesDate(name) == name.day \in Days

C34_AutoKeepsLastTwoDays ==
  RanWith("--auto") =>
    \A f \in cleanup.files :
      /\ f.day = NoDate => f \notin cleanup.dir
      /\ CarriesDate(f) =>
           (f \notin cleanup.dir <=> (cleanup.time \div MsPerDay) - f.day > 2)

C34_Witness ==
  /\ RanWith("--auto")
  /\ cleanup.time = 3 * MsPerDay + (MsPerDay - 1)
  /\ \E f \in cleanup.files : f.day = 1 /\ f \in cleanup.dir
  /\ \E f \in cleanup.files : f.day = 0 /\ f \notin cleanup.dir

(***************************************************************************)
(* C35: a job is in `success` only if every collaborator call of its final *)
(* stage succeeded: fillImage when the job needs a mask, the presigned PUT *)
(* URL, the download and the upload of addTextOverlay, the presigned GET   *)
(* URL.  A job one of whose calls failed is in `failures` with the error   *)
(* message of that call and never in `success`.                            *)
(***************************************************************************)
FinalStageCalls(t) ==
  (IF t.needsMask THEN {"fillImage"} ELSE {})
    \cup {"getPresignedPutUrl", "addTextOverlay", "getPresignedGetUrl"}

FinalPositions == {"fill", "puturl", "overlay", "upload", "geturl"}

C35_SuccessNeedsEveryFinalCall ==
  \A k \in 1..Len(tasks3) :
    LET t == tasks3[k] IN
    /\ t.failedAt \in FinalPositions \cup {"none"}
    /\ (t.st = "fulfilled" /\ t.success) =>
         /\ t.failedAt = "none"
         /\ FinalStageCalls(t) \subseteq calls[t.id]
    /\ t.failedAt # "none" =>
         /\ t.st = "fulfilled"
         /\ ~t.success
         /\ t.error = ErrorMessage(CallAt(t.failedAt))
    /\ ReportReady =>
         /\ SuccessOf(t.id) # {} => (t.success /\ t.failedAt = "none")
         /\ t.failedAt # "none" =>
              /\ SuccessOf(t.id) = {}
              /\ \E j \in FailuresOf(t.id) : processResults.failures[j].error = t.error

C35_Witness ==
  /\ pc = "done"
  /\ \E k \in 1..Len(tasks3) : tasks3[k].failedAt = "upload"
  /\ \E k \in 1..Len(tasks3) : tasks3[k].success /\ tasks3[k].needsMask

(***************************************************************************)
(* C36: whatever the order in which the units of a stage complete, the     *)
(* prepared assets, the masked assets, the entries of `success` and the    *)
(* entries of `failures` are each in job expansion order.                  *)
(***************************************************************************)
\* the jobs of the entries of a list of the report, in list order
JobsOfEntries(entries) ==
  [k \in 1..Len(entries) |->
     CHOOSE id \in 0..Len(tasks1) :
       IF \E j \in 1..Len(tasks1) : RecKey(entries[k]) = TaskKey(tasks1[j])
       THEN id # 0 /\ RecKey(entries[k]) = TaskKey(tasks1[id])
       ELSE id = 0]

C36_StageOutputsInExpansionOrder ==
  /\ Increasing([k \in 1..Len(preparedAssets) |-> preparedAssets[k].id])
  /\ Increasing([k \in 1..Len(maskedAssets) |-> maskedAssets[k].id])
  /\ Increasing([k \in 1..Len(tasks3) |-> tasks3[k].id])
  /\ Increasing(JobsOfEntries(processResults.success))
  /\ Increasing(JobsOfEntries(processResults.failures))
  /\ \A k \in 1..Len(processResults.success) :
       JobsOfEntries(processResults.success)[k] # 0

\* the second unit of the final stage has completed while the first still
\* awaits its first call
C36_Witness ==
  /\ pc = "phase3"
  /\ Len(tasks3) >= 2
  /\ Len(preparedAssets) >= 2
  /\ tasks3[1].st = "fill"
  /\ tasks3[2].st = "fulfilled"

(***************************************************************************)
(* C39: the createMask helper obtains the presigned URLs of the mask, has  *)
(* Photoshop create the mask, obtains the presigned URLs of the inverted   *)
(* mask and has Photoshop invert the mask, in this order, and returns the  *)
(* GET URL of the inverted mask.  The invert action is not invoked when    *)
(* the mask creation failed, and when a step fails the sequential stage    *)
(* forwards no mask URL for the job.                                       *)
(***************************************************************************)
IsPrefix(s, t) == Len(s) <= Len(t) /\ \A k \in 1..Len(s) : s[k] = t[k]

HelperOrder ==
  <<"maskPutUrl", "maskGetUrl", "createMask",
    "invertPutUrl", "invertGetUrl", "playPhotoshopActionsJson">>

\* the call the helper of job id awaits
AwaitedStep(id) == maskSteps[id][Len(maskSteps[id])]

MaskedOf(id) == {k \in 1..Len(maskedAssets) : maskedAssets[k].id = id}

C39_CreateMaskHelperOrder ==
  [][\A id \in 1..Len(maskSteps) :
       /\ IsPrefix(maskSteps'[id], HelperOrder)
       /\ maskSteps'[id] # <<>> <=> id \in maskInFlight'
       /\ (maskSteps'[id] # maskSteps[id] /\ maskSteps'[id] # <<>>) =>
            Len(maskSteps'[id]) = Len(maskSteps[id]) + 1
       /\ (maskResult[id] = "none" /\ maskResult'[id] = "ok") =>
            /\ maskSteps[id] = HelperOrder
            /\ MaskedOf(id) = {}
            /\ \E k \in MaskedOf(id)' : maskedAssets'[k].maskUrl = <<"mask", id>>
       /\ (maskResult[id] = "none" /\ maskResult'[id] = "failed") =>
            /\ MaskedOf(id)' = {}
            /\ AwaitedStep(id) = "createMask" =>
                 "playPhotoshopActionsJson" \notin Range(maskSteps[id])
       /\ maskResult[id] = "failed" =>
            /\ MaskedOf(id)' = {}
            /\ maskSteps'[id] = <<>>
            /\ FinalUnitOf(id)' = 0]_vars

\* the helper of one job awaits the invert action after the helper of an
\* earlier job failed
C39_Witness ==
  /\ pc = "phase2"
  /\ \E id \in 1..Len(maskSteps) : maskResult[id] = "failed"
  /\ \E id \in 1..Len(maskSteps) :
       maskSteps[id] = HelperOrder /\ AwaitedStep(id) = "playPhotoshopActionsJson"

====
